---------------------------- MODULE Spec2Model ----------------------------
(***************************************************************************)
(* A model of IP2X, the offline compiler that turns CSV exports and a      *)
(* MaxMind trie database into four delta/varint encoded lookup tables      *)
(* (src/src/main.rs, src/src/maxmind.rs).                                  *)
(*                                                                         *)
(* Integer widths are scaled: the 128-bit address (u128) is AddrBits wide, *)
(* the 32-bit address (u32) is V4Bits wide, and the 0xffff marker of the   *)
(* IPv4-mapped region is MarkerBits wide and sits right above the V4Bits   *)
(* low bits, as 0xffff sits right above the low 32 bits.                   *)
(***************************************************************************)
EXTENDS Integers, Sequences, FiniteSets, TLC

(***************************************************************************)
(* Bounds of the model.                                                    *)
(***************************************************************************)
\* scaled width of u32 (an IPv4 address)
V4Bits == 2
\* number of intern calls the interner driver makes
MaxCalls == 4
\* number of CSV rows one build keeps
MaxRows == 2
\* number of leaves the trie database holds
MaxLeaves == 2
\* scaled width of i64 (the argument of write_signed_varint)
I64Bits == 8

\* u128 is four times as wide as u32
AddrBits == 4 * V4Bits
\* 0xffff is half as wide as u32
MarkerBits == V4Bits \div 2

RECURSIVE Pow2(_)
Pow2(n) == IF n <= 0 THEN 1 ELSE 2 * Pow2(n - 1)

\* number of values of the scaled u128 and of the scaled u32
AddrMod == Pow2(AddrBits)
V4Mod == Pow2(V4Bits)

(***************************************************************************)
(* The string interners.  A Vec<String> is a sequence whose element k      *)
(* (0-based, as in the code) is strings[k + 1]; the HashMap<String, usize> *)
(* is a function on the set of its keys.                                   *)
(***************************************************************************)
Placeholder == "-"

MapInsert(map, s, idx) ==
    [x \in (DOMAIN map) \cup {s} |-> IF x = s THEN idx ELSE map[x]]

\* mutant: the 1-based interner without the reserved slot (0-based index)
intern_with_offset_zero_based(s, strs, map) ==
    IF s = Placeholder
    THEN [idx |-> 0, strings |-> strs, map |-> map]
    ELSE IF s \in DOMAIN map
    THEN [idx |-> map[s], strings |-> strs, map |-> map]
    ELSE LET pushed == Append(strs, s)
             idx == Len(pushed) - 1
         IN  [idx |-> idx, strings |-> pushed, map |-> MapInsert(map, s, idx)]

\* fn intern: 0-based index of the string in the table
intern(s, strs, map) ==
    IF s = Placeholder
    THEN [idx |-> 0, strings |-> strs, map |-> map]
    ELSE IF s \in DOMAIN map
    THEN [idx |-> map[s], strings |-> strs, map |-> map]
    ELSE LET pushed == Append(strs, s)
             idx == Len(pushed) - 1
         IN  [idx |-> idx, strings |-> pushed, map |-> MapInsert(map, s, idx)]

\* fn intern_with_offset: 1-based index, slot 0 is reserved
intern_with_offset(s, strs, map) ==
    IF s = Placeholder
    THEN [idx |-> 0, strings |-> strs, map |-> map]
    ELSE IF s \in DOMAIN map
    THEN [idx |-> map[s], strings |-> strs, map |-> map]
    ELSE LET pushed == Append(strs, s)
             idx == Len(pushed)
         IN  [idx |-> idx, strings |-> pushed, map |-> MapInsert(map, s, idx)]

\* fn write_string_table: the count, an empty string, then the strings.
\* The result is the emitted table; its slot k is element k + 1.
write_string_table(strs) ==
    [count |-> Len(strs) + 1, slots |-> <<"">> \o strs]

\* build_asn_bin writes the table as it is: the count, then the strings.
write_asn_strings(strs) ==
    [count |-> Len(strs), slots |-> strs]

(***************************************************************************)
(* Fixed-width arithmetic.  Subtraction of unsigned integers panics on     *)
(* underflow when the build has overflow checks (cargo's dev profile) and  *)
(* wraps when it has none (the release profile).                           *)
(***************************************************************************)
Underflows(a, b) == a < b

WrapSub(a, b) == ((a - b) + AddrMod) % AddrMod

RECURSIVE BitOr(_, _)
BitOr(a, b) ==
    IF a = 0 THEN b
    ELSE IF b = 0 THEN a
    ELSE (IF a % 2 = 1 \/ b % 2 = 1 THEN 1 ELSE 0)
         + 2 * BitOr(a \div 2, b \div 2)

Max(a, b) == IF a >= b THEN a ELSE b

RECURSIVE BitXor(_, _)
BitXor(a, b) ==
    IF a = 0 THEN b
    ELSE IF b = 0 THEN a
    ELSE (IF a % 2 # b % 2 THEN 1 ELSE 0) + 2 * BitXor(a \div 2, b \div 2)

(***************************************************************************)
(* The varint codec.  The bytes written are a sequence.                    *)
(***************************************************************************)
\* mutant: the groups written without the continuation bit
write_varint_unflagged(value) ==
    LET RECURSIVE Groups(_)
        Groups(v) == IF v \div 128 # 0
                     THEN <<v % 128>> \o Groups(v \div 128)
                     ELSE <<v % 128>>
    IN  Groups(value)

RECURSIVE write_varint(_)
\* fn write_varint: byte = value & 0x7F; value >>= 7; the high bit is set
\* while value != 0
write_varint(value) ==
    LET byte == value % 128
        rest == value \div 128
    IN  IF rest # 0 THEN <<byte + 128>> \o write_varint(rest) ELSE <<byte>>

\* number of values of the scaled i64 and u64
I64Mod == Pow2(I64Bits)

\* the bits of a scaled i64, as the u64 of the same bits
AsU64(value) == (value + I64Mod) % I64Mod

\* ((value << 1) ^ (value >> 63)) as u64: the shift to the left drops the
\* top bit, the shift to the right is arithmetic
ZigZag(value) ==
    BitXor((2 * AsU64(value)) % I64Mod, IF value < 0 THEN I64Mod - 1 ELSE 0)

\* fn write_signed_varint: the loop of write_varint on the zigzag image
write_signed_varint(value) == write_varint(ZigZag(value))

(***************************************************************************)
(* CSV fields.  A field is a text: one that is a decimal number n, or one  *)
(* that is not a number at all.                                            *)
(***************************************************************************)
Num(n) == [txt |-> "num", n |-> n]
NotANumber == [txt |-> "text", n |-> 0]

\* fn parse_u128: the number, or 0 when the text does not parse as a u128
parse_u128(f) == IF f.txt = "num" /\ f.n < AddrMod THEN f.n ELSE 0

\* fn parse_f32: the number, or 0.0 when the text ("-" included) does not parse
parse_f32(f) == IF f.txt = "num" THEN f.n ELSE 0

\* `x as u32`
AsU32(x) == x % V4Mod

\* fn ipv4_to_ipv6: (0xffff << 32) | ipv4
ipv4_to_ipv6(ipv4) == BitOr((Pow2(MarkerBits) - 1) * V4Mod, ipv4)

\* the from and to of a row, as every process_*_csv computes them
RowFrom(is_v4, f) ==
    IF is_v4 THEN ipv4_to_ipv6(AsU32(parse_u128(f))) ELSE parse_u128(f)

(***************************************************************************)
(* Sorting.  sort_by and sort_by_key are stable.                           *)
(***************************************************************************)
\* the comparator of build_geo_bin, build_asn_bin and build_isp_bin:
\* a.0.cmp(&b.0).then_with(|| (a.1 - a.0).cmp(&(b.1 - b.0)))
compare_ranges(a, b) ==
    IF a.start < b.start THEN "Less"
    ELSE IF a.start > b.start THEN "Greater"
    ELSE LET size_a == WrapSub(a.end, a.start)
             size_b == WrapSub(b.end, b.start)
         IN  IF size_a < size_b THEN "Less"
             ELSE IF size_a > size_b THEN "Greater"
             ELSE "Equal"

\* the comparator of build_proxy_types_bin: sort_by_key(|r| r.0)
compare_keys(a, b) ==
    IF a.start < b.start THEN "Less"
    ELSE IF a.start > b.start THEN "Greater"
    ELSE "Equal"

Compare(a, b, by_key) ==
    IF by_key THEN compare_keys(a, b) ELSE compare_ranges(a, b)

\* x put behind the elements of the sorted s that are not greater than it
InsertStable(s, x, by_key) ==
    LET k == Cardinality({i \in 1..Len(s) : Compare(x, s[i], by_key) # "Less"})
    IN  SubSeq(s, 1, k) \o <<x>> \o SubSeq(s, k + 1, Len(s))

RECURSIVE StableSort(_, _)
StableSort(s, by_key) ==
    IF s = <<>> THEN <<>>
    ELSE InsertStable(StableSort(SubSeq(s, 1, Len(s) - 1), by_key),
                      s[Len(s)], by_key)

\* With overflow checks the comparator panics on a.1 - a.0 when it is handed
\* a range whose end is below its start; it computes the size only for two
\* ranges of equal start.
ComparatorPanics(s) ==
    \E i, j \in 1..Len(s) :
        /\ i # j
        /\ s[i].start = s[j].start
        /\ Underflows(s[i].end, s[i].start)

(***************************************************************************)
(* Delta encoding (the record loops of the four builders).                 *)
(***************************************************************************)
\* the start the i-th record is a delta against
PrevFrom(s, i) == IF i = 1 THEN 0 ELSE s[i - 1].start

\* the i-th record's subtractions underflow
RecordUnderflows(s, i) ==
    \/ Underflows(s[i].start, PrevFrom(s, i))
    \/ Underflows(s[i].end, s[i].start)

\* the records written before the first panic (all of them when none panics)
WrittenCount(s, checks) ==
    IF checks /\ \E i \in 1..Len(s) : RecordUnderflows(s, i)
    THEN (CHOOSE i \in 1..Len(s) :
            /\ RecordUnderflows(s, i)
            /\ \A j \in 1..(i - 1) : ~RecordUnderflows(s, j)) - 1
    ELSE Len(s)

\* from_delta = from - prev_from; range_size = to - from
EncodeRange(s, i) ==
    [from_delta |-> WrapSub(s[i].start, PrevFrom(s, i)),
     range_size |-> WrapSub(s[i].end, s[i].start)]

PrevIdx(s, i, f) == IF i = 1 THEN 0 ELSE s[i - 1][f]

\* the ASN record: the range, then the three signed index deltas (i64)
EncodeAsn(s, i) ==
    [from_delta |-> EncodeRange(s, i).from_delta,
     range_size |-> EncodeRange(s, i).range_size,
     cidr_delta |-> s[i].i1 - PrevIdx(s, i, "i1"),
     asn_delta  |-> s[i].i2 - PrevIdx(s, i, "i2"),
     name_delta |-> s[i].i3 - PrevIdx(s, i, "i3")]

\* the geo record: the range, then the coordinates times 1000
EncodeGeo(s, i) ==
    [from_delta |-> EncodeRange(s, i).from_delta,
     range_size |-> EncodeRange(s, i).range_size,
     lat_i32 |-> s[i].lat * 1000,
     lon_i32 |-> s[i].lon * 1000]

\* scaled width of u16: half as wide as u32
U16Bits == V4Bits \div 2
\* strings.len() < 65536: the number of values of the (scaled) u16
IndexLimit == Pow2(U16Bits)

\* mutant: the three indices written as u16 whatever the table holds
EncodeIsp_always_u16(s, i, use_u16) ==
    [from_delta |-> WrapSub(s[i].start, PrevFrom(s, i)),
     range_size |-> WrapSub(s[i].end, s[i].start),
     width |-> 16,
     isp_idx |-> s[i].i1 % IndexLimit,
     domain_idx |-> s[i].i2 % IndexLimit,
     provider_idx |-> s[i].i3 % IndexLimit]

\* the ISP record: the range, then the three indices `as u16` or `as u32`
EncodeIsp(s, i, use_u16) ==
    LET width == IF use_u16 THEN 16 ELSE 32
        Cast(idx) == IF use_u16 THEN idx % IndexLimit ELSE idx % V4Mod
    IN  [from_delta |-> EncodeRange(s, i).from_delta,
         range_size |-> EncodeRange(s, i).range_size,
         width |-> width,
         isp_idx |-> Cast(s[i].i1),
         domain_idx |-> Cast(s[i].i2),
         provider_idx |-> Cast(s[i].i3)]

(***************************************************************************)
(* The trie decoder's range of a leaf (MaxMindReader::calculate_range).    *)
(***************************************************************************)
\* ip_acc << n on the scaled u128
ShiftLeft(x, n) == (x * Pow2(n)) % AddrMod

calculate_range(ip_version, depth, ip_acc) ==
    LET bits == IF ip_version = 6 THEN AddrBits ELSE V4Bits
        start == ShiftLeft(ip_acc, bits - depth)
        v4 == bits = AddrBits /\ start <= Pow2(V4Bits)
        prefix_len == IF v4 THEN Max(depth - (AddrBits - V4Bits), 0) ELSE depth
        effective_bits == IF v4 THEN V4Bits ELSE bits
    IN  [start |-> start,
         end |-> BitOr(start, Pow2(effective_bits - prefix_len) - 1)]

\* The walk pops the left child first, so the leaves arrive by ascending
\* path, which for leaves of one trie is by ascending start.
RECURSIVE LeavesInWalkOrder(_, _)
LeavesInWalkOrder(ip_version, leaves) ==
    IF leaves = {} THEN <<>>
    ELSE LET Start(l) == calculate_range(ip_version, l.depth, l.prefix).start
             first == CHOOSE l \in leaves :
                          \A m \in leaves : Start(l) <= Start(m)
         IN  <<first>> \o LeavesInWalkOrder(ip_version, leaves \ {first})

\* what load_all_geo returns for a trie of these leaves: the range of every
\* leaf whose value decodes to a location that is not (0, 0), in the order
\* of the walk
LeafEntries(ip_version, leaves) ==
    LET walk == LeavesInWalkOrder(ip_version, leaves)
        Entry(l) ==
            [start |-> calculate_range(ip_version, l.depth, l.prefix).start,
             end   |-> calculate_range(ip_version, l.depth, l.prefix).end,
             lat |-> l.lat, lon |-> l.lon, src |-> "trie",
             leaf |-> <<ip_version, l.depth, l.prefix>>, pos |-> 0]
        Located(l) == l.lat # 0 \/ l.lon # 0
    IN  [i \in 1..Len(SelectSeq(walk, Located)) |->
            Entry(SelectSeq(walk, Located)[i])]

\* mutant: every trie entry appended, a duplicate of a CSV range or not
geo_merge_append_all(csv, entries) ==
    LET Kept(e) == ~(e.lat = 0 /\ e.lon = 0)
    IN  csv \o SelectSeq(entries, Kept)

\* the merge of build_geo_bin: range_map holds the CSV ranges; an entry is
\* pushed unless it is (0, 0) or range_map holds its (start, end)
geo_merge(csv, entries) ==
    LET range_map == {<<csv[i].start, csv[i].end>> : i \in 1..Len(csv)}
        Kept(e) == /\ ~(e.lat = 0 /\ e.lon = 0)
                   /\ <<e.start, e.end>> \notin range_map
    IN  csv \o SelectSeq(entries, Kept)

(***************************************************************************)
(* The structured value decoder (maxmind.rs, struct Decoder).  The buffer  *)
(* is a sequence of bytes; byte i of the code (0-based) is buffer[i + 1].  *)
(* An indexing or slicing past the end of the buffer panics.  A String is  *)
(* the sequence of its bytes.  The result of a decode is "ok" with a value *)
(* and the offset behind it, "err" (an io::Error), or "panic".             *)
(***************************************************************************)
Ok(v, off) == [tag |-> "ok", value |-> v, off |-> off]
Err == [tag |-> "err", value |-> <<>>, off |-> 0]
Panic == [tag |-> "panic", value |-> <<>>, off |-> 0]

Val(t, v) == [t |-> t, v |-> v]

\* buffer[i]
ByteAt(buffer, i) == buffer[i + 1]
\* &buffer[lo..hi] does not panic
SliceOk(buffer, lo, hi) == lo <= hi /\ hi <= Len(buffer)
\* &buffer[lo..hi]
Slice(buffer, lo, hi) == SubSeq(buffer, lo + 1, hi)

RECURSIVE BigEndian(_)
\* from_be_bytes
BigEndian(bytes) ==
    IF bytes = <<>> THEN 0
    ELSE 256 * BigEndian(SubSeq(bytes, 1, Len(bytes) - 1)) + bytes[Len(bytes)]

\* an offset behind every buffer of the model
FarOffset == 1073741824

\* a 4-byte pointer; one of 2^30 or more lies behind every buffer
BigEndianOffset(bytes) ==
    IF bytes[1] >= 64 THEN FarOffset ELSE BigEndian(bytes)

\* mutant: the size field of a pointer extended like any other
size_from_ctrl_byte_extending_pointers(buffer, ctrl_byte, offset, type_num) ==
    LET size == ctrl_byte % 32
    IN  IF size < 29 THEN Ok(size, offset)
        ELSE IF size = 29
        THEN IF offset >= Len(buffer) THEN Panic
             ELSE Ok(29 + ByteAt(buffer, offset), offset + 1)
        ELSE IF size = 30
        THEN IF offset + 1 >= Len(buffer) THEN Panic
             ELSE Ok(285 + BigEndian(Slice(buffer, offset, offset + 2)),
                     offset + 2)
        ELSE IF offset + 2 >= Len(buffer) THEN Panic
             ELSE Ok(BigEndian(Slice(buffer, offset, offset + 3)) + 65821,
                     offset + 3)

\* fn size_from_ctrl_byte
size_from_ctrl_byte(buffer, ctrl_byte, offset, type_num) ==
    LET size == ctrl_byte % 32
    IN  IF type_num = 1 \/ size < 29 THEN Ok(size, offset)
        ELSE IF size = 29
        THEN IF offset >= Len(buffer) THEN Panic
             ELSE Ok(29 + ByteAt(buffer, offset), offset + 1)
        ELSE IF size = 30
        THEN IF offset + 1 >= Len(buffer) THEN Panic
             ELSE Ok(285 + BigEndian(Slice(buffer, offset, offset + 2)),
                     offset + 2)
        ELSE IF offset + 2 >= Len(buffer) THEN Panic
             ELSE Ok(BigEndian(Slice(buffer, offset, offset + 3)) + 65821,
                     offset + 3)

\* fn decode_string (from_utf8_lossy leaves the ASCII bytes of the model's
\* files as they are)
decode_string(buffer, size, offset) ==
    IF ~SliceOk(buffer, offset, offset + size) THEN Panic
    ELSE Ok(Val("String", Slice(buffer, offset, offset + size)), offset + size)

\* fn decode_double: the double is kept as its eight bytes
decode_double(buffer, size, offset) ==
    IF size # 8 THEN Err
    ELSE IF ~SliceOk(buffer, offset, offset + size) THEN Panic
    ELSE Ok(Val("Double", Slice(buffer, offset, offset + size)), offset + size)

\* fn decode_float: the float is kept as its four bytes
decode_float(buffer, size, offset) ==
    IF size # 4 THEN Err
    ELSE IF ~SliceOk(buffer, offset, offset + size) THEN Panic
    ELSE Ok(Val("Float", Slice(buffer, offset, offset + size)), offset + size)

\* fn decode_bytes
decode_bytes(buffer, size, offset) ==
    IF ~SliceOk(buffer, offset, offset + size) THEN Panic
    ELSE Ok(Val("Bytes", Slice(buffer, offset, offset + size)), offset + size)

\* fn decode_uint: the u64 keeps the last eight bytes
decode_uint(buffer, size, offset) ==
    IF ~SliceOk(buffer, offset, offset + size) THEN Panic
    ELSE Ok(Val("UInt",
                BigEndian(Slice(buffer, Max(offset, offset + size - 8),
                                offset + size))),
            offset + size)

\* fn decode_int32: padded[4 - size..] panics for a size above 4
decode_int32(buffer, size, offset) ==
    IF size = 0 THEN Ok(Val("Int", 0), offset)
    ELSE IF ~SliceOk(buffer, offset, offset + size) \/ size > 4 THEN Panic
    ELSE LET bytes == Slice(buffer, offset, offset + size)
             negative == size = 4 /\ bytes[1] >= 128
             magnitude == IF negative
                          THEN BigEndian(<<bytes[1] - 128>> \o Tail(bytes))
                          ELSE BigEndian(bytes)
         IN  Ok(Val("Int", IF negative THEN magnitude - 1073741824 - 1073741824
                           ELSE magnitude),
                offset + size)

\* the pointer of decode_pointer, whose bytes are buf
PointerValue(size, buf, pointer_base) ==
    CASE Len(buf) = 1 -> BigEndian(<<size % 8>> \o buf) + pointer_base
      [] Len(buf) = 2 -> BigEndian(<<0, size % 8>> \o buf) + 2048 + pointer_base
      [] Len(buf) = 3 -> BigEndian(<<size % 8>> \o buf) + 526336 + pointer_base
      [] OTHER -> BigEndianOffset(buf) + pointer_base

RECURSIVE decode(_, _, _, _)
RECURSIVE decode_pointer(_, _, _, _, _)
RECURSIVE decode_map(_, _, _, _, _, _)
RECURSIVE decode_array(_, _, _, _, _, _)

\* fn decode.  `depth` is the room left on the call stack: the recursion
\* has no bound of its own, and a recursion deeper than the buffer is long
\* has met an offset twice and never returns (the stack overflows).
decode(buffer, pointer_base, offset, depth) ==
    IF depth = 0 \/ offset >= Len(buffer) THEN Panic
    ELSE
    LET ctrl_byte == ByteAt(buffer, offset)
        extended == ctrl_byte \div 32 = 0
    IN  IF extended /\ offset + 1 >= Len(buffer) THEN Panic
        ELSE
        LET type_num == IF extended THEN ByteAt(buffer, offset + 1) + 7
                        ELSE ctrl_byte \div 32
            sized == size_from_ctrl_byte(buffer, ctrl_byte,
                         IF extended THEN offset + 2 ELSE offset + 1, type_num)
            size == sized.value
            new_offset == sized.off
        IN  IF sized.tag # "ok" THEN sized
            ELSE CASE type_num = 1 ->
                        decode_pointer(buffer, pointer_base, size, new_offset, depth)
                   [] type_num = 2 -> decode_string(buffer, size, new_offset)
                   [] type_num = 3 -> decode_double(buffer, size, new_offset)
                   [] type_num = 4 -> decode_bytes(buffer, size, new_offset)
                   [] type_num \in {5, 6, 9, 10} ->
                        decode_uint(buffer, size, new_offset)
                   [] type_num = 7 ->
                        decode_map(buffer, pointer_base, size, new_offset,
                                   <<>>, depth)
                   [] type_num = 8 -> decode_int32(buffer, size, new_offset)
                   [] type_num = 11 ->
                        decode_array(buffer, pointer_base, size, new_offset,
                                     <<>>, depth)
                   [] type_num = 14 -> Ok(Val("Bool", size # 0), new_offset)
                   [] type_num = 15 -> decode_float(buffer, size, new_offset)
                   [] OTHER -> Err

\* fn decode_pointer: the caller gets the value the pointer leads to
decode_pointer(buffer, pointer_base, size, offset, depth) ==
    LET pointer_size == (size \div 8) + 1
    IN  IF ~SliceOk(buffer, offset, offset + pointer_size) THEN Panic
        ELSE LET buf == Slice(buffer, offset, offset + pointer_size)
                 pointer == PointerValue(size, buf, pointer_base)
                 pointee == decode(buffer, pointer_base, pointer, depth - 1)
             IN  IF pointee.tag # "ok" THEN pointee
                 ELSE Ok(pointee.value, offset + pointer_size)

\* fn decode_map: `size` entries are left to decode into `map`; an entry
\* whose key is no String is decoded and left out
decode_map(buffer, pointer_base, size, offset, map, depth) ==
    IF size = 0 THEN Ok(Val("Map", map), offset)
    ELSE LET key == decode(buffer, pointer_base, offset, depth - 1)
         IN  IF key.tag # "ok" THEN key
             ELSE LET value == decode(buffer, pointer_base, key.off, depth - 1)
                  IN  IF value.tag # "ok" THEN value
                      ELSE decode_map(buffer, pointer_base, size - 1, value.off,
                               IF key.value.t = "String"
                               THEN MapInsert(map, key.value.v, value.value)
                               ELSE map,
                               depth)

\* fn decode_array: `size` elements are left to decode behind `array`
decode_array(buffer, pointer_base, size, offset, array, depth) ==
    IF size = 0 THEN Ok(Val("Array", array), offset)
    ELSE LET value == decode(buffer, pointer_base, offset, depth - 1)
         IN  IF value.tag # "ok" THEN value
             ELSE decode_array(buffer, pointer_base, size - 1, value.off,
                               Append(array, value.value), depth)

\* Decoder::decode called from outside: the whole call stack is free
Decode(buffer, pointer_base, offset) ==
    decode(buffer, pointer_base, offset, Len(buffer) + 1)

(***************************************************************************)
(* The trie database reader (maxmind.rs, struct MaxMindReader).  A result  *)
(* is "ok" with a value, "err" or "panic", as for the decoder.             *)
(***************************************************************************)
METADATA_MARKER ==
    <<171, 205, 239, 77, 97, 120, 77, 105, 110, 100, 46, 99, 111, 109>>
DATA_SEPARATOR_SIZE == 16

\* the keys the reader looks up, as bytes
KeyNodeCount == <<110, 111, 100, 101, 95, 99, 111, 117, 110, 116>>
KeyRecordSize == <<114, 101, 99, 111, 114, 100, 95, 115, 105, 122, 101>>
KeyIpVersion == <<105, 112, 95, 118, 101, 114, 115, 105, 111, 110>>
KeyLocation == <<108, 111, 99, 97, 116, 105, 111, 110>>
KeyLatitude == <<108, 97, 116, 105, 116, 117, 100, 101>>
KeyLongitude == <<108, 111, 110, 103, 105, 116, 117, 100, 101>>

\* fn find_metadata_start: behind the rightmost marker
find_metadata_start(buffer) ==
    LET n == Len(METADATA_MARKER)
        hits == {pos \in 0..(Len(buffer) - n) :
                    Slice(buffer, pos, pos + n) = METADATA_MARKER}
    IN  IF hits = {} THEN Err
        ELSE Ok((CHOOSE pos \in hits : \A q \in hits : q <= pos) + n, 0)

\* Value::as_u64 is Some
IsNumber(v) == v.t \in {"UInt", "Int"}
\* map.get(key).and_then(|v| v.as_u64()) is Some
HasNumber(map, key) == key \in DOMAIN map /\ IsNumber(map[key])

\* fn parse_metadata; a negative Int as u64 as u32 is a count of 2^31 or
\* more, above every node of the model's files
parse_metadata(buffer, start) ==
    LET decoded == Decode(buffer, start, start)
        map == decoded.value.v
    IN  IF decoded.tag # "ok" THEN decoded
        ELSE IF decoded.value.t # "Map" THEN Err
        ELSE IF ~HasNumber(map, KeyNodeCount) THEN Err
        ELSE IF ~HasNumber(map, KeyRecordSize) THEN Err
        ELSE LET node_count == IF map[KeyNodeCount].v < 0 THEN FarOffset
                               ELSE map[KeyNodeCount].v
                 record_size == map[KeyRecordSize].v % 65536
                 ip_version == IF HasNumber(map, KeyIpVersion)
                               THEN map[KeyIpVersion].v % 65536 ELSE 6
             IN  Ok([node_count |-> node_count,
                     record_size |-> record_size,
                     ip_version |-> ip_version,
                     search_tree_size |-> node_count * (record_size \div 4)],
                    0)

\* fn read_24bit, read_28bit, read_32bit behind read_node_static
read_node_static(buffer, node_number, index, record_size, node_byte_size) ==
    LET base == node_number * node_byte_size
    IN  CASE record_size = 24 ->
               LET offset == base + index * 3
               IN  IF ~SliceOk(buffer, offset, offset + 3) THEN Panic
                   ELSE Ok(BigEndian(Slice(buffer, offset, offset + 3)), 0)
          [] record_size = 28 ->
               LET offset == base + 3 * index
                   bytes == Slice(buffer, offset, offset + 4)
               IN  IF ~SliceOk(buffer, offset, offset + 4) THEN Panic
                   ELSE IF index = 1
                   THEN Ok(BigEndian(<<bytes[1] % 16, bytes[2], bytes[3],
                                       bytes[4]>>), 0)
                   ELSE Ok(BigEndian(<<bytes[4] \div 16, bytes[1], bytes[2],
                                       bytes[3]>>), 0)
          [] record_size = 32 ->
               LET offset == base + index * 4
               IN  IF ~SliceOk(buffer, offset, offset + 4) THEN Panic
                   ELSE Ok(BigEndianOffset(Slice(buffer, offset, offset + 4)),
                           0)
          [] OTHER -> Err

RECURSIVE FollowZeroBits(_, _, _, _, _)
\* the loop of find_ipv4_start with `steps` iterations left
FollowZeroBits(buffer, node_count, record_size, node, steps) ==
    IF steps = 0 \/ node >= node_count THEN Ok(node, 0)
    ELSE LET next == read_node_static(buffer, node, 0, record_size,
                                      record_size \div 4)
         IN  IF next.tag # "ok" THEN next
             ELSE FollowZeroBits(buffer, node_count, record_size, next.value,
                                 steps - 1)

\* fn find_ipv4_start: child 0 followed 96 times (128 - 32) from node 0
find_ipv4_start(buffer, node_count, record_size, ip_version) ==
    IF ip_version # 6 THEN Ok(0, 0)
    ELSE FollowZeroBits(buffer, node_count, record_size, 0, AddrBits - V4Bits)

\* fn open, of the bytes read from the file
open(buffer) ==
    LET metadata_start == find_metadata_start(buffer)
        metadata == parse_metadata(buffer, metadata_start.value)
        ipv4_start == find_ipv4_start(buffer, metadata.value.node_count,
                          metadata.value.record_size, metadata.value.ip_version)
    IN  IF metadata_start.tag # "ok" THEN metadata_start
        ELSE IF metadata.tag # "ok" THEN metadata
        ELSE IF ipv4_start.tag # "ok" THEN ipv4_start
        ELSE Ok([metadata |-> metadata.value, ipv4_start |-> ipv4_start.value],
                0)

\* fn node_to_offset
node_to_offset(metadata, node) ==
    node - metadata.node_count + metadata.search_tree_size

\* fn push_children: a child that cannot be read is left out
push_children(buffer, metadata, stack, node, depth, ip_acc) ==
    LET right == read_node_static(buffer, node, 1, metadata.record_size,
                                  metadata.record_size \div 4)
        left == read_node_static(buffer, node, 0, metadata.record_size,
                                 metadata.record_size \div 4)
        with_right == IF right.tag = "ok"
                      THEN Append(stack, <<right.value, depth + 1,
                                           (2 * ip_acc + 1) % AddrMod>>)
                      ELSE stack
    IN  IF right.tag = "panic" \/ left.tag = "panic" THEN Panic
        ELSE Ok(IF left.tag = "ok"
                THEN Append(with_right,
                            <<left.value, depth + 1, (2 * ip_acc) % AddrMod>>)
                ELSE with_right, 0)

\* `bits` of calculate_range
AddressBits(metadata) == IF metadata.ip_version = 6 THEN AddrBits ELSE V4Bits

\* `bits - depth` of calculate_range underflows: a panic with overflow
\* checks, a wrapped shift without them
Overflow == [tag |-> "overflow", value |-> <<>>, off |-> 0]

RECURSIVE Walk(_, _, _, _)
\* the loop of collect_pointers: the stack, top last, and the pointers
Walk(buffer, reader, stack, pointers) ==
    IF stack = <<>> THEN Ok(pointers, 0)
    ELSE
    LET top == stack[Len(stack)]
        rest == SubSeq(stack, 1, Len(stack) - 1)
        node == top[1]
        depth == top[2]
        ip_acc == top[3]
        node_count == reader.metadata.node_count
    IN  IF ip_acc # 0 /\ node = reader.ipv4_start
        THEN Walk(buffer, reader, rest, pointers)
        ELSE IF node > node_count /\ depth > AddressBits(reader.metadata)
        THEN Overflow
        ELSE IF node > node_count
        THEN Walk(buffer, reader, rest,
                  Append(pointers,
                         [offset |-> node_to_offset(reader.metadata, node),
                          range |-> calculate_range(reader.metadata.ip_version,
                                                    depth, ip_acc),
                          leaf |-> <<reader.metadata.ip_version, depth, ip_acc>>]))
        ELSE IF node >= node_count
        THEN Walk(buffer, reader, rest, pointers)
        ELSE LET pushed == push_children(buffer, reader.metadata, rest, node,
                                         depth, ip_acc)
             IN  IF pushed.tag # "ok" THEN pushed
                 ELSE Walk(buffer, reader, pushed.value, pointers)

\* fn collect_pointers
collect_pointers(buffer, reader) ==
    Walk(buffer, reader, <<<<0, 0, 0>>>>, <<>>)

\* Value::as_f64 is Some
IsFloat(v) == v.t \in {"Double", "Float"}

\* the bytes behind the first two are zero
LowBytesZero(bytes) == \A i \in 3..Len(bytes) : bytes[i] = 0

\* f64::from_be_bytes and f32::from_be_bytes, then `as f32`, of the bytes of
\* 0.0, -0.0 and of the whole numbers whose mantissa lies in the second byte
as_f32(v) ==
    LET bytes == v.v
        sign == IF bytes[1] >= 128 THEN -1 ELSE 1
        double == v.t = "Double"
        exponent == IF double
                    THEN (bytes[1] % 128) * 16 + bytes[2] \div 16 - 1023
                    ELSE (bytes[1] % 128) * 2 + bytes[2] \div 128 - 127
        unit == IF double THEN 16 ELSE 128
        mantissa == unit + (bytes[2] % unit)
    IN  CASE LowBytesZero(bytes) /\ bytes[1] % 128 = 0 /\ bytes[2] = 0 -> 0
          [] /\ LowBytesZero(bytes)
             /\ exponent \in 0..16
             /\ (mantissa * Pow2(exponent)) % unit = 0 ->
               sign * ((mantissa * Pow2(exponent)) \div unit)

\* fn extract_location is Some
HasLocation(value) ==
    /\ value.t = "Map"
    /\ KeyLocation \in DOMAIN value.v
    /\ value.v[KeyLocation].t = "Map"
    /\ KeyLatitude \in DOMAIN value.v[KeyLocation].v
    /\ IsFloat(value.v[KeyLocation].v[KeyLatitude])
    /\ KeyLongitude \in DOMAIN value.v[KeyLocation].v
    /\ IsFloat(value.v[KeyLocation].v[KeyLongitude])

RECURSIVE DecodeGeoFrom(_, _, _, _, _)
\* the loop of decode_geo from pointer i on
DecodeGeoFrom(buffer, reader, pointers, i, results) ==
    IF i > Len(pointers) THEN Ok(results, 0)
    ELSE LET data_base == reader.metadata.search_tree_size + DATA_SEPARATOR_SIZE
             decoded == Decode(buffer, data_base, pointers[i].offset)
             location == decoded.value.v[KeyLocation].v
             lat == as_f32(location[KeyLatitude])
             lon == as_f32(location[KeyLongitude])
         IN  IF decoded.tag = "panic" THEN Panic
             ELSE DecodeGeoFrom(buffer, reader, pointers, i + 1,
                      IF /\ decoded.tag = "ok"
                         /\ HasLocation(decoded.value)
                         /\ (lat # 0 \/ lon # 0)
                      THEN Append(results,
                               [start |-> pointers[i].range.start,
                                end |-> pointers[i].range.end,
                                lat |-> lat, lon |-> lon, src |-> "trie",
                                leaf |-> pointers[i].leaf, pos |-> 0])
                      ELSE results)

\* fn decode_geo
decode_geo(buffer, reader, pointers) ==
    DecodeGeoFrom(buffer, reader, pointers, 1, <<>>)

\* fn load_all_geo
load_all_geo(buffer, reader) ==
    LET pointers == collect_pointers(buffer, reader)
    IN  IF pointers.tag # "ok" THEN pointers
        ELSE decode_geo(buffer, reader, pointers.value)

(***************************************************************************)
(* State.                                                                  *)
(***************************************************************************)
VARIABLES
    convention,  \* interner driver: "intern" or "intern_with_offset"
    strings,     \* the string table (Vec<String>)
    string_map,  \* the index of every interned string (HashMap)
    calls,       \* interner driver: the calls made, <<string, index returned>>
    kind,        \* the table being built: "geo", "proxy", "asn" or "isp"
    overflow_checks, \* the build panics on integer overflow (dev profile)
    pc,          \* where the build is: "read", "maxmind", "sort", "write",
                 \* "done", or "panic" once the process has aborted
    file,        \* the CSV being read: 1 the IPv4 file, 2 the IPv6 file
    ranges,      \* build_geo_bin's ranges
    types,       \* build_proxy_types_bin's types: name -> ranges
    data,        \* build_asn_bin's and build_isp_bin's data
    out,         \* what has been written to the output file
    merged,      \* history: the CSV ranges and the trie entries of the merge
    buffer,      \* reader driver: the bytes of GeoLite2-City.mmdb
    reader,      \* reader driver: what MaxMindReader::open returned
    probe        \* function drivers: the last call, its input and result

internVars == <<convention, calls>>
readerVars == <<buffer, reader>>
tableVars == <<strings, string_map>>
buildVars == <<kind, overflow_checks, pc, file, ranges, types, data, out,
               merged>>

vars == <<convention, strings, string_map, calls,
          kind, overflow_checks, pc, file, ranges, types, data, out, merged,
          buffer, reader, probe>>

\* nothing is being built (the interner driver runs alone)
BuildIdle ==
    /\ kind = "none"
    /\ overflow_checks = FALSE
    /\ pc = "idle"
    /\ file = 0
    /\ ranges = <<>>
    /\ types = <<>>
    /\ data = <<>>
    /\ out = <<>>
    /\ merged = <<>>
    /\ buffer = <<>>
    /\ reader = <<>>
    /\ probe = <<>>

(***************************************************************************)
(* The interner driver: any sequence of calls of one interner on one       *)
(* string table.                                                           *)
(***************************************************************************)
FieldStrings == {"-", "a", "b", "c"}

InternInit ==
    /\ convention \in {"intern", "intern_with_offset"}
    /\ strings = <<>>
    /\ string_map = <<>>
    /\ calls = <<>>
    /\ BuildIdle

CallIntern ==
    /\ convention = "intern"
    /\ Len(calls) < MaxCalls
    /\ \E s \in FieldStrings :
         LET r == intern(s, strings, string_map)
         IN  /\ strings' = r.strings
             /\ string_map' = r.map
             /\ calls' = Append(calls, <<s, r.idx>>)
    /\ UNCHANGED <<convention, buildVars, readerVars, probe>>

CallInternWithOffset ==
    /\ convention = "intern_with_offset"
    /\ Len(calls) < MaxCalls
    /\ \E s \in FieldStrings :
         LET r == intern_with_offset(s, strings, string_map)
         IN  /\ strings' = r.strings
             /\ string_map' = r.map
             /\ calls' = Append(calls, <<s, r.idx>>)
    /\ UNCHANGED <<convention, buildVars, readerVars, probe>>

InternNext == CallIntern \/ CallInternWithOffset

SpecIntern == InternInit /\ [][InternNext]_vars

(***************************************************************************)
(* The four builds (build_geo_bin, build_proxy_types_bin, build_asn_bin,   *)
(* build_isp_bin).  A build reads the rows of its IPv4 CSV, then those of  *)
(* its IPv6 CSV, merges the trie entries (geo only), sorts, and writes.    *)
(***************************************************************************)
Kinds == {"geo", "proxy", "asn", "isp"}

\* the start fields and the end fields a row may hold
FromFields == {NotANumber, Num(1)}
ToFields == {NotANumber, Num(1), Num(2)}
\* the latitude and longitude fields a geo row may hold
GeoCoordFields == {<<NotANumber, NotANumber>>, <<Num(1), Num(2)>>}
\* the proxy types a proxy row may name
ProxyTypes == {"PUB", "VPN"}
\* the three string fields an ASN or ISP row may hold
StringFields == {<<"a", "b", "-">>, <<"b", "a", "a">>, <<"-", "-", "b">>}
\* a row has one column too few, or all the columns its build reads
ColumnCounts(needed) == {needed - 1, needed}

\* the leaves a trie in 6-mode or 4-mode may hold, and their coordinates
TrieLeaves(ip_version) ==
    IF ip_version = 6
    THEN {<<AddrBits, 1>>, <<AddrBits, ipv4_to_ipv6(1)>>, <<AddrBits - 1, 0>>}
    ELSE {<<V4Bits, 1>>, <<V4Bits, 2>>}
TrieCoords == {<<0, 0>>, <<7, 8>>}

\* neither path is a prefix of the other
Disjoint(l, m) ==
    LET d == IF l.depth <= m.depth THEN l.depth ELSE m.depth
    IN  l.prefix \div Pow2(l.depth - d) # m.prefix \div Pow2(m.depth - d)

\* the sets of at most n leaves one trie can hold
TrieContents(ip_version, n) ==
    LET all == {[depth |-> l[1], prefix |-> l[2], lat |-> c[1], lon |-> c[2]] :
                   l \in TrieLeaves(ip_version), c \in TrieCoords}
    IN  {s \in SUBSET all :
           /\ Cardinality(s) <= n
           /\ \A l, m \in s : l # m => Disjoint(l, m)}

RecordCount ==
    CASE kind = "geo" -> Len(ranges)
      [] kind = "proxy" ->
           LET RECURSIVE Sum(_)
               Sum(ts) == IF ts = {} THEN 0
                          ELSE LET x == CHOOSE x \in ts : TRUE
                               IN  Len(types[x]) + Sum(ts \ {x})
           IN  Sum(DOMAIN types)
      [] OTHER -> Len(data)

Init ==
    /\ convention = "none"
    /\ calls = <<>>
    /\ strings = <<>>
    /\ string_map = <<>>
    /\ kind \in Kinds
    /\ overflow_checks \in BOOLEAN
    /\ pc = "read"
    /\ file = 1
    /\ ranges = <<>>
    /\ types = <<>>
    /\ data = <<>>
    /\ out = <<>>
    /\ merged = <<>>
    /\ buffer = <<>>
    /\ reader = <<>>
    /\ probe = <<>>

\* one line of process_geo_csv
ProcessGeoRow ==
    /\ kind = "geo" /\ pc = "read"
    /\ RecordCount < MaxRows
    /\ \E cols \in ColumnCounts(8), f0 \in FromFields, f1 \in ToFields,
          c \in GeoCoordFields :
         LET from == RowFrom(file = 1, f0)
             to == RowFrom(file = 1, f1)
             lat == parse_f32(c[1])
             lon == parse_f32(c[2])
         IN  IF cols < 8 \/ (lat = 0 /\ lon = 0)
             THEN UNCHANGED ranges
             ELSE ranges' = Append(ranges,
                      [start |-> from, end |-> to, lat |-> lat, lon |-> lon,
                       src |-> IF file = 1 THEN "csv4" ELSE "csv6",
                       leaf |-> <<0, 0, 0>>, pos |-> RecordCount + 1])
    /\ UNCHANGED <<internVars, tableVars, readerVars, probe,
                   kind, overflow_checks, pc, file,
                   types, data, out, merged>>

\* one line of process_proxy_csv
ProcessProxyRow ==
    /\ kind = "proxy" /\ pc = "read"
    /\ RecordCount < MaxRows
    /\ \E cols \in ColumnCounts(3), f0 \in FromFields, f1 \in ToFields,
          proxy_type \in ProxyTypes :
         LET from == RowFrom(file = 1, f0)
             to == RowFrom(file = 1, f1)
             old == IF proxy_type \in DOMAIN types
                    THEN types[proxy_type] ELSE <<>>
         IN  IF cols < 3
             THEN UNCHANGED types
             ELSE types' = MapInsert(types, proxy_type,
                               Append(old, [start |-> from, end |-> to,
                                            pos |-> RecordCount + 1]))
    /\ UNCHANGED <<internVars, tableVars, readerVars, probe,
                   kind, overflow_checks, pc, file,
                   ranges, data, out, merged>>

\* one line of process_asn_csv
ProcessAsnRow ==
    /\ kind = "asn" /\ pc = "read"
    /\ RecordCount < MaxRows
    /\ \E cols \in ColumnCounts(5), f0 \in FromFields, f1 \in ToFields,
          s \in StringFields :
         LET from == RowFrom(file = 1, f0)
             to == RowFrom(file = 1, f1)
             cidr == intern(s[1], strings, string_map)
             asn == intern(s[2], cidr.strings, cidr.map)
             name == intern(s[3], asn.strings, asn.map)
         IN  IF cols < 5 \/ s[2] = Placeholder
             THEN UNCHANGED <<data, strings, string_map>>
             ELSE /\ data' = Append(data,
                        [start |-> from, end |-> to, i1 |-> cidr.idx,
                         i2 |-> asn.idx, i3 |-> name.idx, fields |-> s,
                         pos |-> RecordCount + 1])
                  /\ strings' = name.strings
                  /\ string_map' = name.map
    /\ UNCHANGED <<internVars, readerVars, probe, kind, overflow_checks, pc, file,
                   ranges, types, out, merged>>

\* one line of process_isp_csv
ProcessIspRow ==
    /\ kind = "isp" /\ pc = "read"
    /\ RecordCount < MaxRows
    /\ \E cols \in ColumnCounts(9), f0 \in FromFields, f1 \in ToFields,
          s \in StringFields, has_provider \in BOOLEAN :
         LET from == RowFrom(file = 1, f0)
             to == RowFrom(file = 1, f1)
             provider == IF has_provider THEN s[3] ELSE Placeholder
             isp == intern_with_offset(s[1], strings, string_map)
             domain == intern_with_offset(s[2], isp.strings, isp.map)
             prov == intern_with_offset(provider, domain.strings, domain.map)
         IN  IF cols < 9
             THEN UNCHANGED <<data, strings, string_map>>
             ELSE /\ data' = Append(data,
                        [start |-> from, end |-> to, i1 |-> isp.idx,
                         i2 |-> domain.idx, i3 |-> prov.idx,
                         fields |-> <<s[1], s[2], provider>>,
                         pos |-> RecordCount + 1])
                  /\ strings' = prov.strings
                  /\ string_map' = prov.map
    /\ UNCHANGED <<internVars, readerVars, probe, kind, overflow_checks, pc, file,
                   ranges, types, out, merged>>

\* the end of a CSV: the IPv6 file follows the IPv4 file
EndOfFile ==
    /\ pc = "read"
    /\ IF file = 1
       THEN file' = 2 /\ pc' = pc
       ELSE file' = file /\ pc' = IF kind = "geo" THEN "maxmind" ELSE "sort"
    /\ UNCHANGED <<internVars, tableVars, readerVars, probe,
                   kind, overflow_checks,
                   ranges, types, data, out, merged>>

\* MaxMindReader::open returns an error: the CSV ranges stand alone
MaxMindOpenFails ==
    /\ kind = "geo" /\ pc = "maxmind"
    /\ pc' = "sort"
    /\ UNCHANGED <<internVars, tableVars, readerVars, probe,
                   kind, overflow_checks, file,
                   ranges, types, data, out, merged>>

\* MaxMindReader::open or load_all_geo panics on the bytes of the file
MaxMindAborts ==
    /\ kind = "geo" /\ pc = "maxmind"
    /\ pc' = "panic"
    /\ UNCHANGED <<internVars, tableVars, readerVars, probe,
                   kind, overflow_checks, file,
                   ranges, types, data, out, merged>>

\* MaxMindReader::open returns a reader: its entries are merged
MaxMindMerge ==
    /\ kind = "geo" /\ pc = "maxmind"
    /\ \E ip_version \in {4, 6} :
         \E leaves \in TrieContents(ip_version, MaxLeaves) :
            /\ ranges' = geo_merge(ranges, LeafEntries(ip_version, leaves))
            /\ merged' = [csv |-> ranges,
                          entries |-> LeafEntries(ip_version, leaves)]
    /\ pc' = "sort"
    /\ UNCHANGED <<internVars, tableVars, readerVars, probe,
                   kind, overflow_checks, file,
                   types, data, out>>

\* ranges.sort_by(..) of build_geo_bin
SortGeo ==
    /\ kind = "geo" /\ pc = "sort"
    /\ IF overflow_checks /\ ComparatorPanics(ranges)
       THEN pc' = "panic" /\ UNCHANGED ranges
       ELSE pc' = "write" /\ ranges' = StableSort(ranges, FALSE)
    /\ UNCHANGED <<internVars, tableVars, readerVars, probe,
                   kind, overflow_checks, file,
                   types, data, out, merged>>

\* ranges.sort_by_key(..) of every subtable of build_proxy_types_bin
SortProxy ==
    /\ kind = "proxy" /\ pc = "sort"
    /\ pc' = "write"
    /\ types' = [t \in DOMAIN types |-> StableSort(types[t], TRUE)]
    /\ UNCHANGED <<internVars, tableVars, readerVars, probe,
                   kind, overflow_checks, file,
                   ranges, data, out, merged>>

\* data.sort_by(..) of build_asn_bin and of build_isp_bin
SortData ==
    /\ kind \in {"asn", "isp"} /\ pc = "sort"
    /\ IF overflow_checks /\ ComparatorPanics(data)
       THEN pc' = "panic" /\ UNCHANGED data
       ELSE pc' = "write" /\ data' = StableSort(data, FALSE)
    /\ UNCHANGED <<internVars, tableVars, readerVars, probe,
                   kind, overflow_checks, file,
                   ranges, types, out, merged>>

\* the record loop of build_geo_bin
WriteGeo ==
    /\ kind = "geo" /\ pc = "write"
    /\ LET n == WrittenCount(ranges, overflow_checks)
       IN  /\ out' = [count |-> Len(ranges),
                      records |-> [i \in 1..n |-> EncodeGeo(ranges, i)]]
           /\ pc' = IF n < Len(ranges) THEN "panic" ELSE "done"
    /\ UNCHANGED <<internVars, tableVars, readerVars, probe,
                   kind, overflow_checks, file,
                   ranges, types, data, merged>>

\* the subtables written before the first panic, in the order the HashMap
\* hands out the types
ProxyTables(order) ==
    LET Panics(k) ==
            WrittenCount(types[order[k]], overflow_checks) < Len(types[order[k]])
        last == IF \E k \in 1..Len(order) : Panics(k)
                THEN CHOOSE k \in 1..Len(order) :
                        Panics(k) /\ \A j \in 1..(k - 1) : ~Panics(j)
                ELSE Len(order)
    IN  [k \in 1..last |->
            [name |-> order[k],
             count |-> Len(types[order[k]]),
             records |->
                [i \in 1..WrittenCount(types[order[k]], overflow_checks) |->
                    EncodeRange(types[order[k]], i)]]]

\* the type and record loops of build_proxy_types_bin
WriteProxy ==
    /\ kind = "proxy" /\ pc = "write"
    /\ \E order \in [1..Cardinality(DOMAIN types) -> DOMAIN types] :
         /\ \A i, j \in DOMAIN order : i # j => order[i] # order[j]
         /\ LET tables == ProxyTables(order)
                complete ==
                    /\ Len(tables) = Len(order)
                    /\ \A k \in 1..Len(tables) :
                          Len(tables[k].records) = tables[k].count
            IN  /\ out' = [count |-> Len(order), tables |-> tables]
                /\ pc' = IF complete THEN "done" ELSE "panic"
    /\ UNCHANGED <<internVars, tableVars, readerVars, probe,
                   kind, overflow_checks, file,
                   ranges, types, data, merged>>

\* the string table and the record loop of build_asn_bin
WriteAsn ==
    /\ kind = "asn" /\ pc = "write"
    /\ LET n == WrittenCount(data, overflow_checks)
       IN  /\ out' = [strings |-> write_asn_strings(strings),
                      count |-> Len(data),
                      records |-> [i \in 1..n |-> EncodeAsn(data, i)]]
           /\ pc' = IF n < Len(data) THEN "panic" ELSE "done"
    /\ UNCHANGED <<internVars, tableVars, readerVars, probe,
                   kind, overflow_checks, file,
                   ranges, types, data, merged>>

\* the string table and the record loop of build_isp_bin
WriteIsp ==
    /\ kind = "isp" /\ pc = "write"
    /\ LET n == WrittenCount(data, overflow_checks)
           use_u16 == Len(strings) < IndexLimit
       IN  /\ out' = [strings |-> write_string_table(strings),
                      count |-> Len(data),
                      records |-> [i \in 1..n |-> EncodeIsp(data, i, use_u16)]]
           /\ pc' = IF n < Len(data) THEN "panic" ELSE "done"
    /\ UNCHANGED <<internVars, tableVars, readerVars, probe,
                   kind, overflow_checks, file,
                   ranges, types, data, merged>>

Next ==
    \/ ProcessGeoRow
    \/ ProcessProxyRow
    \/ ProcessAsnRow
    \/ ProcessIspRow
    \/ EndOfFile
    \/ MaxMindOpenFails
    \/ MaxMindAborts
    \/ MaxMindMerge
    \/ SortGeo
    \/ SortProxy
    \/ SortData
    \/ WriteGeo
    \/ WriteProxy
    \/ WriteAsn
    \/ WriteIsp

Spec == Init /\ [][Next]_vars

(***************************************************************************)
(* The reader driver: build_geo_bin from the point where the CSV rows are  *)
(* read, on the bytes of a trie database file.                             *)
(***************************************************************************)
\* the three big-endian bytes of v
Bytes3(v) == <<(v \div 65536) % 256, (v \div 256) % 256, v % 256>>

\* one node as read_24bit, read_28bit and read_32bit read it; a file that
\* declares another record size keeps the 24-bit layout
NodeBytes(record_size, left, right) ==
    CASE record_size = 28 ->
           Bytes3(left)
             \o <<(((left \div 16777216) % 16) * 16)
                    + ((right \div 16777216) % 16)>>
             \o Bytes3(right)
      [] record_size = 32 ->
           <<(left \div 16777216) % 256>> \o Bytes3(left)
             \o <<(right \div 16777216) % 256>> \o Bytes3(right)
      [] OTHER -> Bytes3(left) \o Bytes3(right)

\* a String of less than 29 bytes, as the decoder reads it
StringBytes(s) == <<64 + Len(s)>> \o s
\* a uint16 below 256
Uint16Bytes(n) == IF n = 0 THEN <<160>> ELSE <<161, n>>
\* a uint32 below 256
Uint32Bytes(n) == IF n = 0 THEN <<192>> ELSE <<193, n>>
\* the double of a whole number from 1 to 15, and of 0
DoubleBytes(n) ==
    LET exponent == CHOOSE e \in 0..3 : Pow2(e) <= n /\ n < Pow2(e + 1)
        mantissa == (n * 16) \div Pow2(exponent) - 16
    IN  IF n = 0 THEN <<104, 0, 0, 0, 0, 0, 0, 0, 0>>
        ELSE <<104, (1023 + exponent) \div 16,
               (((1023 + exponent) % 16) * 16) + mantissa, 0, 0, 0, 0, 0, 0>>

\* a data record {"location": {"latitude": lat, "longitude": lon}}
LocationBytes(lat, lon) ==
    <<225>> \o StringBytes(KeyLocation)
      \o <<226>> \o StringBytes(KeyLatitude) \o DoubleBytes(lat)
      \o StringBytes(KeyLongitude) \o DoubleBytes(lon)
LocationLen == Len(LocationBytes(0, 0))

\* a value of the unknown type 12 (extended type byte 5)
EncodedUnknown == <<0, 5>>

Absent == -1

\* the metadata map; a field that is Absent is left out
MetadataBytes(node_count, record_size, ip_version) ==
    LET Field(key, v, uint32) ==
            IF v = Absent THEN <<>>
            ELSE StringBytes(key)
                   \o (IF uint32 THEN Uint32Bytes(v) ELSE Uint16Bytes(v))
        Count(v) == IF v = Absent THEN 0 ELSE 1
    IN  <<224 + Count(node_count) + Count(record_size) + Count(ip_version)>>
          \o Field(KeyNodeCount, node_count, TRUE)
          \o Field(KeyRecordSize, record_size, FALSE)
          \o Field(KeyIpVersion, ip_version, FALSE)

\* the search tree: a chain of `bits` nodes along the all-zero path; the
\* last node holds two leaves and the node before it a third.  A leaf is
\* its data record's offset behind the separator, plus node_count + 16.
TreeBytes(record_size, bits, last_leaf) ==
    LET Leaf(k) == bits + DATA_SEPARATOR_SIZE + k
        Node(i) ==
            CASE i = bits - 1 -> NodeBytes(record_size, Leaf(0), Leaf(last_leaf))
              [] i = bits - 2 ->
                   NodeBytes(record_size, i + 1, Leaf(2 * LocationLen))
              [] OTHER -> NodeBytes(record_size, i + 1, bits)
        RECURSIVE From(_)
        From(i) == IF i = bits THEN <<>> ELSE Node(i) \o From(i + 1)
    IN  From(0)

\* the file: search tree, separator, data section, marker, metadata
Image(node_count, record_size, ip_version, last_leaf) ==
    LET bits == IF ip_version = 4 THEN V4Bits ELSE AddrBits
    IN  TreeBytes(record_size, bits, last_leaf)
          \o [i \in 1..DATA_SEPARATOR_SIZE |-> 0]
          \o LocationBytes(7, 8) \o LocationBytes(8, 7) \o LocationBytes(0, 0)
          \o EncodedUnknown
          \o METADATA_MARKER
          \o MetadataBytes(IF node_count = 1 THEN bits ELSE node_count,
                           record_size, ip_version)

\* an IPv6 file of 24-bit records whose search tree is `nodes`, a sequence
\* of <<left, right>> record values, before the data section of Image
ShapedImage(nodes) ==
    LET RECURSIVE From(_)
        From(i) == IF i > Len(nodes) THEN <<>>
                   ELSE NodeBytes(24, nodes[i][1], nodes[i][2]) \o From(i + 1)
    IN  From(1)
          \o [i \in 1..DATA_SEPARATOR_SIZE |-> 0]
          \o LocationBytes(7, 8) \o LocationBytes(8, 7) \o LocationBytes(0, 0)
          \o EncodedUnknown
          \o METADATA_MARKER
          \o MetadataBytes(Len(nodes), 24, 6)

\* the acyclic search trees of two nodes: a record of node 0 is node 1, the
\* no-data value (the node count) or one of two data pointers, a record of
\* node 1 is any of these but node 1
ShapedTries ==
    LET leaves == {2, 2 + DATA_SEPARATOR_SIZE,
                   2 + DATA_SEPARATOR_SIZE + LocationLen}
    IN  {ShapedImage(<<<<l0, r0>>, <<l1, r1>>>>) :
            l0 \in {1} \cup leaves, r0 \in {1} \cup leaves,
            l1 \in leaves, r1 \in leaves}

\* a data offset behind the end of every file of the model
PastTheEnd == 65536

\* the files of the model: the files of every record size and address
\* family, with and without their metadata fields, with a last leaf at a
\* location record, at a record of an unknown type or outside the data
\* section, every truncation of one of them, and the two-node trees of
\* every shape
Databases ==
    {Image(node_count, record_size, ip_version, last_leaf) :
        node_count \in {Absent, 0, 1},
        record_size \in {Absent, 16, 24, 28, 32},
        ip_version \in {Absent, 4, 6},
        last_leaf \in {LocationLen, 3 * LocationLen, PastTheEnd}}
    \cup {SubSeq(Image(1, 24, 4, LocationLen), 1, n) :
            n \in 0..Len(Image(1, 24, 4, LocationLen))}
    \cup ShapedTries

\* the CSV ranges read before the trie database is opened
CsvRanges ==
    {<<>>,
     <<[start |-> ipv4_to_ipv6(1), end |-> ipv4_to_ipv6(2), lat |-> 1,
        lon |-> 2, src |-> "csv4", leaf |-> <<0, 0, 0>>, pos |-> 1]>>}

ReaderInit ==
    /\ convention = "none"
    /\ calls = <<>>
    /\ strings = <<>>
    /\ string_map = <<>>
    /\ kind = "geo"
    /\ overflow_checks \in BOOLEAN
    /\ pc = "maxmind"
    /\ file = 2
    /\ ranges \in CsvRanges
    /\ types = <<>>
    /\ data = <<>>
    /\ out = <<>>
    /\ merged = <<>>
    /\ buffer \in Databases
    /\ reader = <<>>
    /\ probe = <<>>

\* MaxMindReader::open(&maxmind_path) on a file that exists
Open ==
    /\ kind = "geo" /\ pc = "maxmind" /\ reader = <<>>
    /\ buffer \in Databases
    /\ reader' = open(buffer)
    /\ pc' = CASE reader'.tag = "ok" -> "load"
               [] reader'.tag = "err" -> "sort"
               [] OTHER -> "panic"
    /\ UNCHANGED <<internVars, tableVars, buffer, probe,
                   kind, overflow_checks, file,
                   ranges, types, data, out, merged>>

\* reader.load_all_geo() and the merge of its entries into ranges
LoadAllGeo ==
    /\ kind = "geo" /\ pc = "load"
    /\ LET entries == load_all_geo(buffer, reader.value)
       IN  /\ entries.tag = "overflow" => overflow_checks
           /\ IF entries.tag = "ok"
              THEN /\ ranges' = geo_merge(ranges, entries.value)
                   /\ merged' = [csv |-> ranges, entries |-> entries.value]
                   /\ pc' = "sort"
              ELSE /\ pc' = "panic"
                   /\ UNCHANGED <<ranges, merged>>
    /\ UNCHANGED <<internVars, tableVars, readerVars, probe,
                   kind, overflow_checks, file,
                   types, data, out>>

ReaderNext == Open \/ LoadAllGeo \/ SortGeo \/ WriteGeo

SpecReader == ReaderInit /\ [][ReaderNext]_vars

(***************************************************************************)
(* Claims about the builds (checked under Spec).                           *)
(***************************************************************************)
\* the span end - start of a record
Span(r) == r.end - r.start

\* the sort has run (the write loop may have panicked part way)
Sorted == pc \in {"write", "done"} \/ (pc = "panic" /\ out # <<>>)

\* ascending start, ties by ascending span
InOrder(s) ==
    \A i \in 1..(Len(s) - 1) :
        /\ s[i].start <= s[i + 1].start
        /\ s[i].start = s[i + 1].start => Span(s[i]) <= Span(s[i + 1])

\* the records of the build, in their order
Records == IF kind = "geo" THEN ranges ELSE data

\* C1: build_geo_bin, build_asn_bin and build_isp_bin emit their records by
\* ascending start, and records of equal start by ascending span
\* end - start, whatever rows and trie entries they were fed.
C1_SortedByStartThenSpan ==
    (kind \in {"geo", "asn", "isp"} /\ Sorted) => InOrder(Records)

\* C2: every subtable of build_proxy_types_bin is emitted by ascending
\* start, and ranges of equal start by ascending size, whatever the order
\* the rows were read in.  (Stated for rows whose ranges have
\* start <= end, where the size is the plain difference.)
C2_ProxySubtablesSorted ==
    (/\ kind = "proxy" /\ Sorted
     /\ \A t \in DOMAIN types :
           \A i \in 1..Len(types[t]) : types[t][i].start <= types[t][i].end)
    => \A t \in DOMAIN types : InOrder(types[t])

\* the indices of the records of s that hold the range of e
SameRange(s, e) ==
    {i \in 1..Len(s) : s[i].start = e.start /\ s[i].end = e.end}

\* the merge has run and the build has not panicked in the sort
Merged == kind = "geo" /\ merged # <<>> /\ pc \in {"sort", "write", "done"}

\* C3 as stated: a trie range whose (start, end) is that of a CSV range
\* leaves exactly one record with that pair, the CSV one; a trie range that
\* matches no CSV range is appended.
C3_ExactlyOneSurvives ==
    Merged =>
        \A k \in 1..Len(merged.entries) :
            LET e == merged.entries[k]
                same == SameRange(ranges, e)
            IN  IF SameRange(merged.csv, e) # {}
                THEN /\ Cardinality(same) = 1
                     /\ \A i \in same : ranges[i].src # "trie"
                ELSE /\ Cardinality(same) = 1
                     /\ \A i \in same : ranges[i] = e

\* C3 as amended: a trie range whose (start, end) is that of a CSV range is
\* dropped, and the records with that pair are the CSV rows with that pair,
\* each with its own coordinates (one record when the CSV names the pair
\* once); a trie range that matches no CSV range is appended.
C3_TrieDuplicateDropped ==
    Merged =>
        /\ \A k \in 1..Len(merged.entries) :
            LET e == merged.entries[k]
                same == SameRange(ranges, e)
            IN  IF SameRange(merged.csv, e) # {}
                THEN /\ Cardinality(same) = Cardinality(SameRange(merged.csv, e))
                     /\ \A i \in same :
                           /\ ranges[i].src # "trie"
                           /\ \E j \in SameRange(merged.csv, e) :
                                 ranges[i] = merged.csv[j]
                ELSE /\ Cardinality(same) = 1
                     /\ \A i \in same : ranges[i] = e
        /\ \A j \in 1..Len(merged.csv) :
              \E i \in 1..Len(ranges) : ranges[i] = merged.csv[j]

\* a trie entry was dropped for a CSV row of the same range, and another
\* trie entry was appended
C3_Witness ==
    /\ Merged
    /\ pc = "done"
    /\ \E k \in 1..Len(merged.entries) :
          /\ SameRange(merged.csv, merged.entries[k]) # {}
          /\ Cardinality(SameRange(ranges, merged.entries[k])) = 1
    /\ \E i \in 1..Len(ranges) : ranges[i].src = "trie"

\* the address lies in the IPv4-mapped region: the marker (0xffff) right
\* above the 32-bit address and nothing above the marker
InMappedRegion(x) == x \div V4Mod = Pow2(MarkerBits) - 1

\* the leaf <<ip_version, depth, prefix>> lies in the IPv4 subtree of a
\* 6-mode database: below the node that 96 zero bits lead to
InIPv4Subtree(leaf) ==
    /\ leaf[1] = 6
    /\ leaf[2] >= AddrBits - V4Bits
    /\ leaf[3] < Pow2(leaf[2] - (AddrBits - V4Bits))

\* the network of an IPv4-family range: its 32-bit start and end
Network(r) == <<r.start % V4Mod, r.end % V4Mod>>

IPv4Family(r) ==
    r.src = "csv4" \/ (r.src = "trie" /\ InIPv4Subtree(r.leaf))

\* C4: every IPv4-family range of the geo merge, from the IPv4 CSV or from
\* the IPv4 subtree of a 6-mode trie, lies in the IPv4-mapped region, so a
\* CSV range and a trie range of the same network have the same (start, end).
C4_IPv4RangesMapped ==
    LET all == IF merged = <<>> THEN ranges ELSE merged.csv \o merged.entries
    IN  (kind = "geo" /\ pc \in {"sort", "write", "done"}) =>
            /\ \A i \in 1..Len(all) :
                  IPv4Family(all[i]) =>
                      InMappedRegion(all[i].start) /\ InMappedRegion(all[i].end)
            /\ \A i, j \in 1..Len(all) :
                  (/\ all[i].src = "csv4" /\ all[i].start <= all[i].end
                   /\ all[j].src = "trie" /\ InIPv4Subtree(all[j].leaf)
                   /\ Network(all[i]) = Network(all[j]))
                  => (all[i].start = all[j].start /\ all[i].end = all[j].end)

\* every record of the build
AllRecords ==
    CASE kind = "geo" -> {ranges[i] : i \in 1..Len(ranges)}
      [] kind = "proxy" ->
           UNION {{types[t][i] : i \in 1..Len(types[t])} : t \in DOMAIN types}
      [] OTHER -> {data[i] : i \in 1..Len(data)}

\* C9: every record that reaches the sort and encode stage of a build has
\* start <= end, so the size end - start never underflows.
C9_StartNotAboveEnd ==
    pc \in {"sort", "write", "done", "panic"} =>
        \A r \in AllRecords : r.start <= r.end

RECURSIVE SumOf(_, _, _)
\* the sum of field f of the first n elements of s
SumOf(s, f, n) == IF n = 0 THEN 0 ELSE s[n][f] + SumOf(s, f, n - 1)

\* the emitted records e of the sorted ranges s are their deltas: the first
\* value is start - previous start (0 before the first), the second is
\* end - start, neither subtraction underflows, and the first values sum up
\* to the start
DeltaEncoded(s, e) ==
    \A i \in 1..Len(e) :
        /\ s[i].start >= PrevFrom(s, i)
        /\ s[i].end >= s[i].start
        /\ e[i].from_delta = s[i].start - PrevFrom(s, i)
        /\ e[i].range_size = s[i].end - s[i].start
        /\ SumOf(e, "from_delta", i) = s[i].start

\* C10: in every emitted table (per type in the proxy table) a record is
\* the varints of start - previous start and of end - start, whose first
\* values sum up to the start, with no underflow; the ASN indices are
\* signed deltas against the previous record that sum up to the indices.
C10_DeltaEncoding ==
    out # <<>> =>
        CASE kind = "proxy" ->
               \A k \in 1..Len(out.tables) :
                   DeltaEncoded(types[out.tables[k].name], out.tables[k].records)
          [] kind = "asn" ->
               /\ DeltaEncoded(data, out.records)
               /\ \A i \in 1..Len(out.records) :
                     /\ SumOf(out.records, "cidr_delta", i) = data[i].i1
                     /\ SumOf(out.records, "asn_delta", i) = data[i].i2
                     /\ SumOf(out.records, "name_delta", i) = data[i].i3
          [] OTHER -> DeltaEncoded(Records, out.records)

(***************************************************************************)
(* Interner claims (checked under SpecIntern).                             *)
(***************************************************************************)
\* the distinct non-placeholder strings among the first n calls
SeenBefore(n) == {calls[k][1] : k \in 1..n} \ {Placeholder}

\* the first index the convention hands out
FirstIndex == IF convention = "intern_with_offset" THEN 1 ELSE 0

\* C5: no non-placeholder string is ever assigned index 0 by either
\* interner, and two different field contents never receive the same index.
C5_ZeroOnlyForPlaceholder ==
    /\ \A i \in 1..Len(calls) : calls[i][2] = 0 => calls[i][1] = Placeholder
    /\ \A i, j \in 1..Len(calls) :
         calls[i][1] # calls[j][1] => calls[i][2] # calls[j][2]

\* C6: on one string table, the same string always returns the same index,
\* indices follow first-sight order, the placeholder returns 0 and never
\* grows the table, and under intern_with_offset the first string gets 1
\* and the written table holds "" at slot 0 and string k at slot k.
C6_InterningStable ==
    /\ \A i, j \in 1..Len(calls) :
         calls[i][1] = calls[j][1] => calls[i][2] = calls[j][2]
    /\ \A i \in 1..Len(calls) :
         IF calls[i][1] = Placeholder
         THEN calls[i][2] = 0
         ELSE LET first == CHOOSE k \in 1..i :
                              /\ calls[k][1] = calls[i][1]
                              /\ \A m \in 1..(k - 1) : calls[m][1] # calls[i][1]
              IN  calls[i][2] = FirstIndex + Cardinality(SeenBefore(first - 1))
    /\ Len(strings) = Cardinality(SeenBefore(Len(calls)))
    /\ convention = "intern_with_offset" =>
         LET table == write_string_table(strings)
         IN  /\ table.count = Len(table.slots)
             /\ table.slots[1] = ""
             /\ \A i \in 1..Len(calls) :
                  calls[i][1] # Placeholder =>
                    /\ calls[i][2] >= 1
                    /\ calls[i][2] + 1 <= Len(table.slots)
                    /\ table.slots[calls[i][2] + 1] = calls[i][1]

\* a repeated string, the placeholder and a second string were interned
\* under the reserved-empty convention
C6_Witness ==
    /\ convention = "intern_with_offset"
    /\ Len(calls) = MaxCalls
    /\ calls[1][1] # Placeholder
    /\ \E i \in 2..Len(calls) : calls[i][1] = Placeholder
    /\ \E i \in 2..Len(calls) : calls[i][1] = calls[1][1]
    /\ \E i \in 2..Len(calls) : calls[i][1] \notin {Placeholder, calls[1][1]}


(***************************************************************************)
(* Claims about the trie database reader (checked under SpecReader).       *)
(***************************************************************************)
\* C7: whatever the bytes of the trie database file are, MaxMindReader::open
\* and load_all_geo never abort the run: the geo build goes on to sort and
\* write its table.  (The CSV ranges of SpecReader are well-formed: neither
\* the sort nor the write panics on them.)
C7_TrieFileNeverAborts == pc # "panic"

\* the metadata map decoded behind the marker lacks node_count or
\* record_size, or its record_size is not one of 24, 28, 32
BadMetadata(bytes) ==
    LET start == find_metadata_start(bytes)
        decoded == Decode(bytes, start.value, start.value)
        map == decoded.value.v
    IN  /\ start.tag = "ok"
        /\ decoded.tag = "ok"
        /\ decoded.value.t = "Map"
        /\ \/ ~HasNumber(map, KeyNodeCount)
           \/ ~HasNumber(map, KeyRecordSize)
           \/ map[KeyRecordSize].v \notin {24, 28, 32}

\* C8: MaxMindReader::open returns an error whenever the decoded metadata
\* lacks node_count or record_size, or record_size is not one of 24, 28, 32,
\* whatever ip_version and node_count are.
C8_BadMetadataIsAnError ==
    (reader # <<>> /\ BadMetadata(buffer)) => reader.tag = "err"

(***************************************************************************)
(* The function drivers: one function of the program called on its own,    *)
(* on every input of a bounded set.  probe holds the call: the function,   *)
(* its input and what it returned.                                         *)
(***************************************************************************)
FunctionInit ==
    /\ convention = "none"
    /\ strings = <<>>
    /\ string_map = <<>>
    /\ calls = <<>>
    /\ BuildIdle

\* the values of the scaled u128 and of the scaled i64
U128Values == 0..(AddrMod - 1)
I64Values == (-(I64Mod \div 2))..((I64Mod \div 2) - 1)

\* write_varint(&mut out, value)
WriteVarint ==
    /\ probe = <<>>
    /\ \E value \in U128Values :
         probe' = [fn |-> "write_varint", value |-> value,
                   bytes |-> write_varint(value)]
    /\ UNCHANGED <<internVars, tableVars, buildVars, readerVars>>

\* write_signed_varint(&mut out, value)
WriteSignedVarint ==
    /\ probe = <<>>
    /\ \E value \in I64Values :
         probe' = [fn |-> "write_signed_varint", value |-> value,
                   bytes |-> write_signed_varint(value)]
    /\ UNCHANGED <<internVars, tableVars, buildVars, readerVars>>

VarintNext == WriteVarint \/ WriteSignedVarint

SpecVarint == FunctionInit /\ [][VarintNext]_vars

(***************************************************************************)
(* Claims about the varint codec (checked under SpecVarint).               *)
(***************************************************************************)
RECURSIVE RefDecodeFrom(_, _)
\* a reference LEB128 decoder: the value of the groups from byte i on, and
\* the index of the byte that ends them (Len + 1 when none does)
RefDecodeFrom(bytes, i) ==
    IF i > Len(bytes) THEN [value |-> 0, last |-> i]
    ELSE IF bytes[i] < 128 THEN [value |-> bytes[i], last |-> i]
    ELSE LET rest == RefDecodeFrom(bytes, i + 1)
         IN  [value |-> (bytes[i] - 128) + 128 * rest.value, last |-> rest.last]

\* a reference zigzag: 0, -1, 1, -2, ... are 0, 1, 2, 3, ...
RefZigZag(v) == IF v >= 0 THEN 2 * v ELSE (-2 * v) - 1
RefUnZigZag(n) == IF n % 2 = 0 THEN n \div 2 ELSE -((n + 1) \div 2)

\* the bytes are the 7-bit groups of n, least significant first, with the
\* high bit on every byte but the last, and decode to n with no byte left
IsVarintOf(bytes, n) ==
    /\ Len(bytes) >= 1
    /\ \A i \in 1..Len(bytes) :
          /\ bytes[i] \in 0..255
          /\ (bytes[i] >= 128) <=> (i < Len(bytes))
          /\ bytes[i] % 128 = (n \div Pow2(7 * (i - 1))) % 128
    /\ RefDecodeFrom(bytes, 1) = [value |-> n, last |-> Len(bytes)]

\* C11: write_varint emits the 7-bit groups of its argument least
\* significant first with the high bit on every byte but the last;
\* write_signed_varint emits the same encoding of the zigzag image; a
\* reference LEB128 / zigzag decoder returns the original value and consumes
\* exactly the emitted bytes.
C11_VarintRoundTrip ==
    probe # <<>> =>
        IF probe.fn = "write_varint"
        THEN IsVarintOf(probe.bytes, probe.value)
        ELSE /\ IsVarintOf(probe.bytes, RefZigZag(probe.value))
             /\ RefUnZigZag(RefDecodeFrom(probe.bytes, 1).value) = probe.value

\* the least signed value was written, in more than one byte
C11_Witness ==
    /\ probe # <<>>
    /\ probe.fn = "write_signed_varint"
    /\ probe.value = -(I64Mod \div 2)
    /\ Len(probe.bytes) >= 2

(***************************************************************************)
(* Claims about the ISP table (checked under Spec).                        *)
(***************************************************************************)
\* what intern_with_offset returns for field f on the finished table
InternedIndex(f) == IF f = Placeholder THEN 0 ELSE string_map[f]

\* C12: build_isp_bin writes the three indices of every record as u16 when
\* the table holds fewer strings than a u16 has values and as u32 otherwise,
\* the same width for the whole table, and every written index is the index
\* intern_with_offset returned, not truncated.
C12_IspIndexWidth ==
    (kind = "isp" /\ out # <<>>) =>
        \A i \in 1..Len(out.records) :
            LET r == out.records[i]
            IN  /\ r.width = IF Len(strings) < IndexLimit THEN 16 ELSE 32
                /\ r.isp_idx = data[i].i1
                /\ r.domain_idx = data[i].i2
                /\ r.provider_idx = data[i].i3
                /\ r.isp_idx = InternedIndex(data[i].fields[1])
                /\ r.domain_idx = InternedIndex(data[i].fields[2])
                /\ r.provider_idx = InternedIndex(data[i].fields[3])

\* a table of as many strings as a u16 has values was written with u32
\* indices, one of them above every u16
C12_Witness ==
    /\ kind = "isp" /\ pc = "done"
    /\ Len(strings) = IndexLimit
    /\ \E i \in 1..Len(out.records) :
          /\ out.records[i].width = 32
          /\ out.records[i].isp_idx >= IndexLimit

(***************************************************************************)
(* The decoder driven as a function: one call of size_from_ctrl_byte or of *)
(* decode on a small buffer per behaviour.                                 *)
(***************************************************************************)
\* the bytes behind a control byte: least, one and greatest
ExtBytes == {0, 1, 255}
\* the buffers of at most three such bytes
ExtBuffers ==
    {<<>>} \cup {<<a>> : a \in ExtBytes}
           \cup {<<a, b>> : a \in ExtBytes, b \in ExtBytes}
           \cup {<<a, b, c>> : a \in ExtBytes, b \in ExtBytes, c \in ExtBytes}

\* the type decode hands on with a control byte: its top three bits, or
\* an extended type (the next byte + 7) when they are zero
TypesOf(ctrl_byte) ==
    IF ctrl_byte \div 32 # 0 THEN {ctrl_byte \div 32} ELSE {7, 8, 14}

\* decode's call self.size_from_ctrl_byte(ctrl_byte, new_offset, type_num)
SizeFromCtrlByte ==
    /\ probe = <<>>
    /\ \E ctrl_byte \in 0..255, bytes \in ExtBuffers, offset \in 0..1 :
         \E type_num \in TypesOf(ctrl_byte) :
            probe' = [fn |-> "size_from_ctrl_byte",
                      ctrl_byte |-> ctrl_byte,
                      bytes |-> bytes,
                      offset |-> offset,
                      type_num |-> type_num,
                      result |-> size_from_ctrl_byte(bytes, ctrl_byte, offset,
                                                     type_num)]
    /\ UNCHANGED <<internVars, tableVars, buildVars, readerVars>>

\* encoded values a map entry is made of: the string "a", the uint16 5,
\* the boolean true, and the value of an unknown type
EncodedString == <<65, 97>>
EncodedUint == <<161, 5>>
EncodedBool == <<1, 7>>
EncodedValues == {EncodedString, EncodedUint, EncodedBool, EncodedUnknown}

\* a map of one or two entries, all of it or cut short by one byte
EncodedMaps ==
    LET one == {<<225>> \o k \o v : k \in EncodedValues, v \in EncodedValues}
        two == {<<226>> \o k \o v \o StringBytes(<<98>>) \o w :
                    k \in EncodedValues, v \in EncodedValues,
                    w \in EncodedValues}
        whole == one \cup two
    IN  whole \cup {SubSeq(m, 1, Len(m) - 1) : m \in whole}

\* Decoder::new(buffer, 0).decode(0)
DecodeValue ==
    /\ probe = <<>>
    /\ \E bytes \in EncodedMaps :
          probe' = [fn |-> "decode",
                    bytes |-> bytes,
                    result |-> Decode(bytes, 0, 0)]
    /\ UNCHANGED <<internVars, tableVars, buildVars, readerVars>>

DecoderNext == SizeFromCtrlByte \/ DecodeValue

SpecDecoder == FunctionInit /\ [][DecoderNext]_vars

(***************************************************************************)
(* Claims about the decoder (checked under SpecDecoder).                   *)
(***************************************************************************)
\* the bytes size_from_ctrl_byte has to read for this call
ExtensionLength(ctrl_byte, type_num) ==
    IF type_num = 1 \/ ctrl_byte % 32 < 29 THEN 0 ELSE (ctrl_byte % 32) - 28

\* the big-endian number in the n bytes of `bytes` from `offset` on
ExtensionValue(bytes, offset, n) ==
    CASE n = 0 -> 0
      [] n = 1 -> bytes[offset + 1]
      [] n = 2 -> bytes[offset + 1] * 256 + bytes[offset + 2]
      [] n = 3 -> bytes[offset + 1] * 65536 + bytes[offset + 2] * 256
                    + bytes[offset + 3]

\* what is added to the number read
ExtensionBase(n) ==
    CASE n = 0 -> 0 [] n = 1 -> 29 [] n = 2 -> 285 [] n = 3 -> 65821

\* C13: size_from_ctrl_byte returns the low 5 bits when they are below 29
\* or the type is a pointer, reading nothing; for the size fields 29, 30, 31
\* of other types it reads exactly 1, 2, 3 further big-endian bytes, returns
\* their value plus 29, 285, 65821, and moves the offset behind them.  (It
\* never returns an error; where the bytes are not in the buffer the read
\* panics.)
C13_SizeFromCtrlByte ==
    (probe # <<>> /\ probe.fn = "size_from_ctrl_byte") =>
        LET n == ExtensionLength(probe.ctrl_byte, probe.type_num)
            r == probe.result
        IN  /\ r.tag # "err"
            /\ r.tag = "ok" <=> (n = 0 \/ probe.offset + n <= Len(probe.bytes))
            /\ r.tag = "ok" =>
                  /\ r.off = probe.offset + n
                  /\ n = 0 => r.value = probe.ctrl_byte % 32
                  /\ n > 0 => r.value = ExtensionBase(n)
                                + ExtensionValue(probe.bytes, probe.offset, n)

\* a size field of 31 was extended by three bytes that differ
C13_Witness ==
    /\ probe # <<>> /\ probe.fn = "size_from_ctrl_byte"
    /\ probe.ctrl_byte % 32 = 31 /\ probe.type_num = 2
    /\ probe.bytes = <<0, 1, 255>> /\ probe.offset = 0
    /\ probe.result = Ok(65821 + 511, 3)

RECURSIVE HasNonStringKey(_, _, _)
\* among the `size` entries of a map from `offset` on, one whose key
\* decodes to a value that is no string
HasNonStringKey(bytes, size, offset) ==
    IF size = 0 THEN FALSE
    ELSE LET key == Decode(bytes, 0, offset)
         IN  IF key.tag # "ok" THEN FALSE
             ELSE \/ key.value.t # "String"
                  \/ LET value == Decode(bytes, 0, key.off)
                     IN  /\ value.tag = "ok"
                         /\ HasNonStringKey(bytes, size - 1, value.off)

\* C14: a decode call that returns from a map with an entry whose key
\* decodes to a value that is no string returns an error (rather than a
\* map without that entry).
C14_NonStringKeyRejected ==
    (/\ probe # <<>> /\ probe.fn = "decode"
     /\ probe.result.tag # "panic"
     /\ HasNonStringKey(probe.bytes, probe.bytes[1] % 32, 1))
        => probe.result.tag = "err"

(***************************************************************************)
(* Claims about the trie load (checked under SpecReader).                  *)
(***************************************************************************)
\* decode_geo's decoder returned an error for the record of some leaf
DecodeErrorMet ==
    LET pointers == collect_pointers(buffer, reader.value)
        data_base == reader.value.metadata.search_tree_size + DATA_SEPARATOR_SIZE
    IN  /\ pointers.tag = "ok"
        /\ \E i \in 1..Len(pointers.value) :
              Decode(buffer, data_base, pointers.value[i].offset).tag = "err"

\* C15: when decode meets an unknown type tag in the record of one leaf
\* during load_all_geo, the trie load is given up: no entry of the trie is
\* merged into the geo table.
C15_UnknownTypeAbortsLoad ==
    (/\ pc \in {"sort", "write", "done"}
     /\ reader # <<>> /\ reader.tag = "ok"
     /\ DecodeErrorMet)
        => \A i \in 1..Len(ranges) : ranges[i].src # "trie"

RECURSIVE PathsFrom(_, _, _, _, _)
\* the data leaves of the search tree below `node`, which the path
\* `prefix` of `depth` bits leads to, as <<record value, depth, prefix>>;
\* the paths that come to the root of the IPv4 subtree (an internal node)
\* by a prefix other than zero are left out, and a record that cannot be
\* read leads nowhere
PathsFrom(bytes, r, node, depth, prefix) ==
    LET node_count == r.metadata.node_count
        Below(bit) ==
            LET child == read_node_static(bytes, node, bit,
                             r.metadata.record_size,
                             r.metadata.record_size \div 4)
            IN  IF child.tag # "ok" THEN {}
                ELSE PathsFrom(bytes, r, child.value, depth + 1,
                               2 * prefix + bit)
    IN  IF node > node_count THEN {<<node, depth, prefix>>}
        ELSE IF node = node_count THEN {}
        ELSE IF prefix # 0 /\ node = r.ipv4_start THEN {}
        ELSE Below(0) \cup Below(1)

\* C16: collect_pointers ends and emits exactly one entry for every path
\* from the root to a data leaf, but for the paths that come back to the
\* root of the IPv4 subtree by a prefix other than zero; no other data leaf
\* is left out, also when the all-zero path ends in a data pointer or in
\* the no-data value before it is 96 bits long.
C16_EveryLeafOnce ==
    (/\ pc \in {"sort", "write", "done"}
     /\ reader # <<>> /\ reader.tag = "ok")
        => LET pointers == collect_pointers(buffer, reader.value)
               emitted == {<<pointers.value[i].offset,
                             pointers.value[i].leaf[2],
                             pointers.value[i].leaf[3]>> :
                              i \in 1..Len(pointers.value)}
               paths == PathsFrom(buffer, reader.value, 0, 0, 0)
           IN  /\ pointers.tag = "ok"
               /\ Cardinality(emitted) = Len(pointers.value)
               /\ emitted = {<<node_to_offset(reader.value.metadata, p[1]),
                               p[2], p[3]>> : p \in paths}

(***************************************************************************)
(* calculate_range driven as a function: one call per behaviour, for a     *)
(* data leaf at every depth and prefix of either address family.           *)
(***************************************************************************)
CalculateRange ==
    /\ probe = <<>>
    /\ \E ip_version \in {4, 6} :
         \E depth \in 1..(IF ip_version = 6 THEN AddrBits ELSE V4Bits) :
           \E prefix \in 0..(Pow2(depth) - 1) :
              probe' = [fn |-> "calculate_range",
                        ip_version |-> ip_version,
                        depth |-> depth,
                        prefix |-> prefix,
                        range |-> calculate_range(ip_version, depth, prefix)]
    /\ UNCHANGED <<internVars, tableVars, buildVars, readerVars>>

SpecRange == FunctionInit /\ [][CalculateRange]_vars

\* the block of the addresses whose top `depth` bits are `prefix`
Block(bits, depth, prefix) ==
    [start |-> prefix * Pow2(bits - depth),
     end |-> prefix * Pow2(bits - depth) + Pow2(bits - depth) - 1]

\* C17: for a data leaf at (depth, prefix), 1 <= depth <= bits,
\* calculate_range returns the block of the addresses whose top depth bits
\* are prefix, in either address family, the all-zero prefixes shorter than
\* the IPv4 subtree's and the start 2^32 included.
C17_RangeIsBlock ==
    (probe # <<>> /\ probe.fn = "calculate_range") =>
        probe.range = Block(IF probe.ip_version = 6 THEN AddrBits ELSE V4Bits,
                            probe.depth, probe.prefix)

=============================================================================
